---------------------------- MODULE Spec2Model ----------------------------
(***************************************************************************)
(* b64d (src/main.go): scan a text file line by line, find substrings that *)
(* look like base64, decode them and print the decodings that look like   *)
(* text.                                                                   *)
(*                                                                         *)
(* Strings are sequences of bytes (0..255).  Lines, candidates and decoded *)
(* results are all byte sequences; a character literal of the source is   *)
(* its ASCII code.                                                         *)
(***************************************************************************)
EXTENDS Integers, Sequences, FiniteSets

(***************************************************************************)
(* Program constants (src/main.go:15-20).                                  *)
(***************************************************************************)
maxMatches == 10000

minB64Length == 4

(* '=' : the padding character of both patterns and of base64.StdPadding. *)
padChar == 61

(***************************************************************************)
(* The character classes of the two patterns (src/main.go:33, 35).         *)
(***************************************************************************)
alnum == (65..90) \cup (97..122) \cup (48..57)

stdB64Class == alnum \cup {43, 47}

urlB64Class == alnum \cup {45, 95}

(***************************************************************************)
(* regexp.FindAllString(content, -1) for a pattern of the shape            *)
(* [class]{4,}={0,2}: leftmost match first, each quantifier greedy, the    *)
(* next search starting where the previous match ended.                    *)
(***************************************************************************)
RECURSIVE runLen(_, _, _)
runLen(class, s, pos) ==
    IF pos <= Len(s) /\ s[pos] \in class
    THEN 1 + runLen(class, s, pos + 1)
    ELSE 0

\* Mutant of padLen: the pattern with ={0,1}.
padLenOne(s, pos) ==
    IF pos <= Len(s) /\ s[pos] = padChar THEN 1 ELSE 0

padLen(s, pos) ==
    IF pos <= Len(s) /\ s[pos] = padChar
    THEN IF pos + 1 <= Len(s) /\ s[pos + 1] = padChar THEN 2 ELSE 1
    ELSE 0

RECURSIVE FindAllString(_, _, _)
FindAllString(class, s, pos) ==
    IF pos > Len(s) THEN <<>>
    ELSE LET run == runLen(class, s, pos)
             end == pos + run + padLen(s, pos + run)
         IN  IF run >= 4
             THEN <<SubSeq(s, pos, end - 1)>> \o FindAllString(class, s, end)
             ELSE FindAllString(class, s, pos + 1)

stdB64Pattern(content) == FindAllString(stdB64Class, content, 1)

urlB64Pattern(content) == FindAllString(urlB64Class, content, 1)

(***************************************************************************)
(* isValidBase64Length (src/main.go:174-180).                              *)
(***************************************************************************)
RECURSIVE TrimRightPad(_)
TrimRightPad(s) ==
    IF Len(s) > 0 /\ s[Len(s)] = padChar
    THEN TrimRightPad(SubSeq(s, 1, Len(s) - 1))
    ELSE s

\* Mutant of isValidBase64Length: the padding is not removed.
isValidBase64LengthNoTrim(s) ==
    LET rem == Len(s) % 4
    IN  rem = 0 \/ rem = 2 \/ rem = 3

isValidBase64Length(s) ==
    LET rem == Len(TrimRightPad(s)) % 4
    IN  rem = 0 \/ rem = 2 \/ rem = 3

(***************************************************************************)
(* findBase64Patterns (src/main.go:145-172).  acc is the pair of locals    *)
(* (matches, seen); appendNew is the body shared by the two loops.         *)
(***************************************************************************)
RECURSIVE appendNew(_, _, _)
appendNew(acc, found, minLength) ==
    IF found = <<>> THEN acc
    ELSE LET match == Head(found)
             next  == IF Len(match) >= minLength /\ isValidBase64Length(match)
                         /\ match \notin acc.seen
                      THEN [matches |-> Append(acc.matches, match),
                            seen    |-> acc.seen \cup {match}]
                      ELSE acc
         IN  appendNew(next, Tail(found), minLength)

\* Mutant of findBase64Patterns: the URL-safe loop starts with an empty seen.
findBase64PatternsFreshSeen(content, cfg) ==
    LET std == appendNew([matches |-> <<>>, seen |-> {}],
                         stdB64Pattern(content), cfg.minLength)
        all == IF cfg.urlSafe
               THEN appendNew([matches |-> std.matches, seen |-> {}],
                              urlB64Pattern(content), cfg.minLength)
               ELSE std
    IN  all.matches

findBase64Patterns(content, cfg) ==
    LET std == appendNew([matches |-> <<>>, seen |-> {}],
                         stdB64Pattern(content), cfg.minLength)
        all == IF cfg.urlSafe
               THEN appendNew(std, urlB64Pattern(content), cfg.minLength)
               ELSE std
    IN  all.matches

(***************************************************************************)
(* encoding/base64 as decodeBase64 uses it (src/main.go:184-204): the four *)
(* encodings differ in the alphabet and in whether '=' padding is          *)
(* required.  decodeMap gives a character's 6-bit value, 255 for a        *)
(* character outside the alphabet.                                         *)
(***************************************************************************)
StdEncoding    == [url |-> FALSE, padded |-> TRUE]

URLEncoding    == [url |-> TRUE,  padded |-> TRUE]

RawURLEncoding == [url |-> TRUE,  padded |-> FALSE]

RawStdEncoding == [url |-> FALSE, padded |-> FALSE]

decodeMap(enc, c) ==
    IF c \in 65..90 THEN c - 65
    ELSE IF c \in 97..122 THEN c - 71
    ELSE IF c \in 48..57 THEN c + 4
    ELSE IF c = (IF enc.url THEN 45 ELSE 43) THEN 62
    ELSE IF c = (IF enc.url THEN 95 ELSE 47) THEN 63
    ELSE 255

(***************************************************************************)
(* The bytes of one quantum: dbuf holds dlen 6-bit values (the rest 0),    *)
(* which give dlen - 1 bytes.  Decoding is not strict: the unused low bits *)
(* of the last value are not checked.                                      *)
(***************************************************************************)
quantumBytes(dbuf, dlen) ==
    LET val == dbuf[1] * 262144 + dbuf[2] * 4096 + dbuf[3] * 64 + dbuf[4]
        b   == << val \div 65536, (val \div 256) % 256, val % 256 >>
    IN  SubSeq(b, 1, dlen - 1)

(***************************************************************************)
(* Encoding.decodeQuantum: reads up to four characters from src[si..].     *)
(* Result: nsi, the next position; out, the decoded bytes; err.  The       *)
(* candidates never hold '\r' or '\n', which the library skips.            *)
(***************************************************************************)
RECURSIVE decodeQuantum(_, _, _, _, _)
decodeQuantum(enc, src, si, j, dbuf) ==
    IF j = 4 THEN [nsi |-> si, out |-> quantumBytes(dbuf, 4), err |-> FALSE]
    ELSE IF si > Len(src)
    THEN IF j = 0 THEN [nsi |-> si, out |-> <<>>, err |-> FALSE]
         ELSE IF j = 1 \/ enc.padded
              THEN [nsi |-> si, out |-> <<>>, err |-> TRUE]
              ELSE [nsi |-> si, out |-> quantumBytes(dbuf, j), err |-> FALSE]
    ELSE LET in == src[si]
             v  == decodeMap(enc, in)
         IN  IF v # 255
             THEN decodeQuantum(enc, src, si + 1, j + 1, [dbuf EXCEPT ![j + 1] = v])
             ELSE IF ~enc.padded \/ in # padChar
             THEN [nsi |-> si + 1, out |-> <<>>, err |-> TRUE]
             ELSE IF j < 2
             THEN [nsi |-> si + 1, out |-> <<>>, err |-> TRUE]
             ELSE IF j = 2 /\ (si + 1 > Len(src) \/ src[si + 1] # padChar)
             THEN [nsi |-> si + 1, out |-> <<>>, err |-> TRUE]
             ELSE LET nsi == IF j = 2 THEN si + 2 ELSE si + 1
                  IN  [nsi |-> nsi, out |-> quantumBytes(dbuf, j),
                       err |-> nsi <= Len(src)]

(***************************************************************************)
(* Encoding.DecodeString: quantum after quantum until the input ends or a  *)
(* quantum fails.                                                          *)
(***************************************************************************)
RECURSIVE Decode(_, _, _, _)
Decode(enc, src, si, dst) ==
    IF si > Len(src) THEN [err |-> FALSE, bytes |-> dst]
    ELSE LET q == decodeQuantum(enc, src, si, 0, <<0, 0, 0, 0>>)
         IN  IF q.err THEN [err |-> TRUE, bytes |-> dst \o q.out]
             ELSE Decode(enc, src, q.nsi, dst \o q.out)

DecodeString(enc, s) == Decode(enc, s, 1, <<>>)

(***************************************************************************)
(* decodeBase64 (src/main.go:182-210).  tried lists the encodings whose    *)
(* DecodeString was called, in call order; on an error decoded is "".      *)
(***************************************************************************)
RECURSIVE tryEncodings(_, _, _)
tryEncodings(encs, s, tried) ==
    IF encs = <<>> THEN [err |-> TRUE, decoded |-> <<>>, tried |-> tried]
    ELSE LET r == DecodeString(Head(encs), s)
         IN  IF ~r.err
             THEN [err |-> FALSE, decoded |-> r.bytes,
                   tried |-> Append(tried, Head(encs))]
             ELSE tryEncodings(Tail(encs), s, Append(tried, Head(encs)))

\* Mutant of decodeOrder: the URL-safe encodings are tried without the flag.
decodeOrderUnguarded(cfg) ==
    <<StdEncoding, URLEncoding, RawURLEncoding, RawStdEncoding>>

decodeOrder(cfg) ==
    <<StdEncoding>>
    \o (IF cfg.urlSafe THEN <<URLEncoding, RawURLEncoding>> ELSE <<>>)
    \o <<RawStdEncoding>>

decodeBase64(s, cfg) == tryEncodings(decodeOrder(cfg), s, <<>>)

(***************************************************************************)
(* "for _, r := range s" (src/main.go:219): the string is read as UTF-8.   *)
(* A byte that starts no well-formed sequence yields the rune U+FFFD       *)
(* (RuneError) and advances by one byte.                                   *)
(***************************************************************************)
RuneError == 65533

contByte(s, i, lo, hi) == i <= Len(s) /\ s[i] >= lo /\ s[i] <= hi

DecodeRuneInString(s, i) ==
    LET b   == s[i]
        bad == [r |-> RuneError, size |-> 1]
    IN  IF b < 128 THEN [r |-> b, size |-> 1]
        ELSE IF b >= 194 /\ b <= 223
        THEN IF contByte(s, i + 1, 128, 191)
             THEN [r |-> (b - 192) * 64 + (s[i + 1] - 128), size |-> 2]
             ELSE bad
        ELSE IF b >= 224 /\ b <= 239
        THEN IF /\ contByte(s, i + 1, IF b = 224 THEN 160 ELSE 128,
                                      IF b = 237 THEN 159 ELSE 191)
                /\ contByte(s, i + 2, 128, 191)
             THEN [r |-> (b - 224) * 4096 + (s[i + 1] - 128) * 64
                         + (s[i + 2] - 128), size |-> 3]
             ELSE bad
        ELSE IF b >= 240 /\ b <= 244
        THEN IF /\ contByte(s, i + 1, IF b = 240 THEN 144 ELSE 128,
                                      IF b = 244 THEN 143 ELSE 191)
                /\ contByte(s, i + 2, 128, 191)
                /\ contByte(s, i + 3, 128, 191)
             THEN [r |-> (b - 240) * 262144 + (s[i + 1] - 128) * 4096
                         + (s[i + 2] - 128) * 64 + (s[i + 3] - 128), size |-> 4]
             ELSE bad
        ELSE bad

(***************************************************************************)
(* unicode.IsPrint and unicode.IsSpace (src/main.go:221, 223).  Up to      *)
(* U+00FF they are the library's Latin-1 table.  Above it only U+FFFD (a   *)
(* symbol, hence printable) is classified; RunesClassified states that no  *)
(* other rune above U+00FF is met.                                         *)
(***************************************************************************)
IsPrint(r) ==
    IF r <= 255
    THEN (r >= 32 /\ r <= 126) \/ (r >= 161 /\ r # 173)
    ELSE r = RuneError

IsSpace(r) ==
    IF r <= 255
    THEN (r >= 9 /\ r <= 13) \/ r = 32 \/ r = 133 \/ r = 160
    ELSE FALSE

(***************************************************************************)
(* isValidOutput (src/main.go:212-231).  countPrintable is the loop: the   *)
(* value of printableCount after the last rune, or -1 when the loop        *)
(* returned false.  The final test compares float64(printableCount) /      *)
(* float64(len(s)) with 0.75, len(s) being the number of BYTES of s; for   *)
(* counts below 2^50 that is 4 * printableCount >= 3 * len(s).             *)
(***************************************************************************)
RECURSIVE countPrintable(_, _, _)
countPrintable(s, i, printableCount) ==
    IF i > Len(s) THEN printableCount
    ELSE LET d == DecodeRuneInString(s, i)
         IN  IF IsPrint(d.r) \/ d.r = 10 \/ d.r = 13 \/ d.r = 9
             THEN countPrintable(s, i + d.size, printableCount + 1)
             ELSE IF ~IsSpace(d.r) THEN -1
             ELSE countPrintable(s, i + d.size, printableCount)

isValidOutput(s) ==
    IF s = <<>> THEN FALSE
    ELSE LET printableCount == countPrintable(s, 1, 0)
         IN  printableCount >= 0 /\ 4 * printableCount >= 3 * Len(s)

(***************************************************************************)
(* The state of one run of findAndDecode (src/main.go:83-143).             *)
(*                                                                         *)
(* The input is a file: runs of equal lines (segs, each a text and a       *)
(* count) and the way the scanner ends after them: "eof", "readerr" (the   *)
(* underlying reader fails) or "toolong" (the next line does not fit the   *)
(* scanner's buffer of chunkSize bytes).  seg and rep are the scanner's    *)
(* position in it.                                                         *)
(***************************************************************************)
VARIABLES
    config,        \* the flags: urlSafe, minLength, verbose, showOffset
    file,          \* the input (never changes)
    seg, rep,      \* scanner position: segment, lines of it already read
    pc,            \* "scan": at scanner.Scan(); "loop": in the loop over
                   \* matches; "done": findAndDecode has returned
    lineNum, line, \* the locals lineNum and line
    matches, idx,  \* findBase64Patterns(line) and the loop's position in it
    totalFound, totalDecoded, patterns,  \* the locals (patterns: its length)
    stdout,        \* lines written to stdout: their number and the last one
    stderr,        \* what was written to stderr: decode errors (number),
                   \* the limit warning, the statistics
    result,        \* the returned error: "none" (not returned), "nil", "error"
    decodeCalls,   \* number of calls of decodeBase64
    last           \* the last call: its argument, its result, the filter's

vars == << config, file, seg, rep, pc, lineNum, line, matches, idx,
           totalFound, totalDecoded, patterns, stdout, stderr, result,
           decodeCalls, last >>

NoCall == [match |-> <<>>, err |-> FALSE, decoded |-> <<>>, tried |-> <<>>,
           valid |-> FALSE, lineNum |-> 0]

InitRun(cfg, f) ==
    /\ config = cfg
    /\ file = f
    /\ seg = 1
    /\ rep = 0
    /\ pc = "scan"
    /\ lineNum = 0
    /\ line = <<>>
    /\ matches = <<>>
    /\ idx = 1
    /\ totalFound = 0
    /\ totalDecoded = 0
    /\ patterns = 0
    /\ stdout = [count |-> 0, last |-> <<>>, prefix |-> 0]
    /\ stderr = [decodeErrors |-> 0, warning |-> FALSE, statistics |-> FALSE,
                 found |-> 0, decoded |-> 0]
    /\ result = "none"
    /\ decodeCalls = 0
    /\ last = NoCall

(***************************************************************************)
(* scanner.Scan() returns true (src/main.go:91-96): the next line is read  *)
(* and searched.  With no match the loop body does not run and the scanner *)
(* is asked for the next line.                                             *)
(***************************************************************************)
ScanLine ==
    /\ pc = "scan"
    /\ seg <= Len(file.segs)
    /\ LET text  == file.segs[seg].text
           found == findBase64Patterns(text, config)
       IN  /\ lineNum' = lineNum + 1
           /\ line' = text
           /\ matches' = found
           /\ idx' = 1
           /\ pc' = IF found = <<>> THEN "scan" ELSE "loop"
    /\ IF rep + 1 >= file.segs[seg].count
       THEN seg' = seg + 1 /\ rep' = 0
       ELSE seg' = seg /\ rep' = rep + 1
    /\ UNCHANGED << config, file, totalFound, totalDecoded, patterns, stdout,
                    stderr, result, decodeCalls, last >>

(***************************************************************************)
(* scanner.Scan() returns false (src/main.go:132-142): a scanner error is  *)
(* returned as "read error"; at the end of the input the statistics are    *)
(* printed in verbose mode and nil is returned.                            *)
(***************************************************************************)
ScanEnd ==
    /\ pc = "scan"
    /\ seg > Len(file.segs)
    /\ pc' = "done"
    /\ IF file.end # "eof"
       THEN result' = "error" /\ UNCHANGED stderr
       ELSE /\ result' = "nil"
            /\ stderr' = IF config.verbose
                         THEN [stderr EXCEPT !.statistics = TRUE,
                                             !.found = totalFound,
                                             !.decoded = totalDecoded]
                         ELSE stderr
    /\ UNCHANGED << config, file, seg, rep, lineNum, line, matches, idx,
                    totalFound, totalDecoded, patterns, stdout, decodeCalls,
                    last >>

(***************************************************************************)
(* One iteration of "for _, match := range matches" (src/main.go:98-129).  *)
(***************************************************************************)
NextMatch ==
    IF idx < Len(matches)
    THEN idx' = idx + 1 /\ pc' = "loop"
    ELSE idx' = idx /\ pc' = "scan"

\* Mutant of limitReached: the limit is tested with > instead of >=.
limitReachedOffByOne == totalFound > maxMatches

\* src/main.go:99: the test that opens the loop body.
limitReached == totalFound >= maxMatches

\* Mutant of LimitReached: the candidate is skipped and the loop goes on.
LimitReachedContinue ==
    /\ pc = "loop"
    /\ limitReached
    /\ stderr' = IF config.verbose THEN [stderr EXCEPT !.warning = TRUE]
                 ELSE stderr
    /\ NextMatch
    /\ UNCHANGED << config, file, seg, rep, lineNum, line, matches,
                    totalFound, totalDecoded, patterns, stdout, result,
                    decodeCalls, last >>

\* src/main.go:99-104: the limit is reached, the run returns nil.
LimitReached ==
    /\ pc = "loop"
    /\ limitReached
    /\ stderr' = IF config.verbose THEN [stderr EXCEPT !.warning = TRUE]
                 ELSE stderr
    /\ result' = "nil"
    /\ pc' = "done"
    /\ UNCHANGED << config, file, seg, rep, lineNum, line, matches, idx,
                    totalFound, totalDecoded, patterns, stdout, decodeCalls,
                    last >>

\* Mutant of DecodeError: the decode error is returned.
DecodeErrorReturns ==
    /\ pc = "loop"
    /\ ~limitReached
    /\ LET match == matches[idx]
           r     == decodeBase64(match, config)
       IN  /\ r.err
           /\ last' = [match |-> match, err |-> TRUE, decoded |-> r.decoded,
                       tried |-> r.tried, valid |-> FALSE, lineNum |-> lineNum]
    /\ totalFound' = totalFound + 1
    /\ decodeCalls' = decodeCalls + 1
    /\ result' = "error"
    /\ pc' = "done"
    /\ UNCHANGED << config, file, seg, rep, lineNum, line, matches, idx,
                    totalDecoded, patterns, stdout, stderr >>

\* src/main.go:105-113: decodeBase64 fails.
DecodeError ==
    /\ pc = "loop"
    /\ ~limitReached
    /\ LET match == matches[idx]
           r     == decodeBase64(match, config)
       IN  /\ r.err
           /\ last' = [match |-> match, err |-> TRUE, decoded |-> r.decoded,
                       tried |-> r.tried, valid |-> FALSE, lineNum |-> lineNum]
    /\ totalFound' = totalFound + 1
    /\ decodeCalls' = decodeCalls + 1
    /\ stderr' = IF config.verbose
                 THEN [stderr EXCEPT !.decodeErrors = @ + 1]
                 ELSE stderr
    /\ NextMatch
    /\ UNCHANGED << config, file, seg, rep, lineNum, line, matches,
                    totalDecoded, patterns, stdout, result >>

\* src/main.go:105-117: decoded, and isValidOutput refuses the result.
Rejected ==
    /\ pc = "loop"
    /\ ~limitReached
    /\ LET match == matches[idx]
           r     == decodeBase64(match, config)
       IN  /\ ~r.err
           /\ ~isValidOutput(r.decoded)
           /\ last' = [match |-> match, err |-> FALSE, decoded |-> r.decoded,
                       tried |-> r.tried, valid |-> FALSE, lineNum |-> lineNum]
    /\ totalFound' = totalFound + 1
    /\ decodeCalls' = decodeCalls + 1
    /\ NextMatch
    /\ UNCHANGED << config, file, seg, rep, lineNum, line, matches,
                    totalDecoded, patterns, stdout, stderr, result >>

\* src/main.go:105-128: decoded and accepted: counted and printed.
Accepted ==
    /\ pc = "loop"
    /\ ~limitReached
    /\ LET match == matches[idx]
           r     == decodeBase64(match, config)
       IN  /\ ~r.err
           /\ isValidOutput(r.decoded)
           /\ last' = [match |-> match, err |-> FALSE, decoded |-> r.decoded,
                       tried |-> r.tried, valid |-> TRUE, lineNum |-> lineNum]
           /\ stdout' = [count  |-> stdout.count + 1,
                         last   |-> r.decoded,
                         prefix |-> IF config.showOffset THEN lineNum ELSE 0]
    /\ totalFound' = totalFound + 1
    /\ decodeCalls' = decodeCalls + 1
    /\ totalDecoded' = totalDecoded + 1
    /\ patterns' = IF config.verbose THEN patterns + 1 ELSE patterns
    /\ NextMatch
    /\ UNCHANGED << config, file, seg, rep, lineNum, line, matches, stderr,
                    result >>

Next == ScanLine \/ ScanEnd \/ LimitReached \/ DecodeError \/ Rejected \/ Accepted

(***************************************************************************)
(* Inputs.  Bounds of the model: MaxTokens, the number of tokens a         *)
(* generated line is made of; MaxRepeat, how often a file repeats a line;  *)
(* MaxMinLength, the largest -min flag.                                    *)
(***************************************************************************)
MaxTokens == 3

MaxRepeat == 2

MaxMinLength == 6

(* Tokens: "YWJj" (base64 of "abc"), "YWI" and "YQ" (of "ab" and "a",      *)
(* without their padding), "w6lh" (of U+00E9 'a', 3 bytes), and the single *)
(* characters 'A', '+', '-', '=', ' '.                                     *)
Tokens == { <<89, 87, 74, 106>>, <<89, 87, 73>>, <<89, 81>>, <<119, 54, 108, 104>>, <<65>>, <<43>>, <<45>>, <<61>>, <<32>> }

RECURSIVE TokenLines(_)
TokenLines(n) ==
    IF n = 0 THEN { <<>> }
    ELSE LET shorter == TokenLines(n - 1)
         IN  shorter \cup { l \o t : l \in shorter, t \in Tokens }

(* Lines written out.  LineUser, LineToken: the two examples of the        *)
(* documentation.  LineVT34, LineVT36: base64 of "a\vbc" and "ab\v\v\vc". *)
(* LineNBSP: of a, U+00A0, b.  LineBadUTF: of the bytes 61 A0 62.          *)
(* LineTwo: "YWJj w6lh".  LineThree: "YWJj= YQAA YWJj".                    *)
(* LineDup: "YWJj YWJj YQ-YWJj".  LineNone: a line without a candidate.    *)
LineUser   == <<117, 115, 101, 114, 61, 97, 71, 86, 115, 98, 71, 56, 103, 100, 50, 57, 121, 98, 71, 81, 61, 38, 105, 100, 61, 53>>

LineToken  == <<116, 111, 107, 101, 110, 58, 32, 97, 71, 86, 115, 98, 71, 56, 116, 100, 50, 57, 121, 98, 71, 81>>

LineVT34   == <<89, 81, 116, 105, 89, 119, 61, 61>>

LineVT36   == <<89, 87, 73, 76, 67, 119, 116, 106>>

LineNBSP   == <<89, 99, 75, 103, 89, 103, 61, 61>>

LineBadUTF == <<89, 97, 66, 105>>

LineTwo    == <<89, 87, 74, 106, 32, 119, 54, 108, 104>>

LineThree  == <<89, 87, 74, 106, 61, 32, 89, 81, 65, 65, 32, 89, 87, 74, 106>>

LineDup    == <<89, 87, 74, 106, 32, 89, 87, 74, 106, 32, 89, 81, 45, 89, 87, 74, 106>>

LineNone   == <<32>>

WrittenLines == { LineUser, LineToken, LineVT34, LineVT36, LineNBSP,
                  LineBadUTF, LineTwo, LineThree, LineDup, LineNone }

Ends == { "eof", "readerr", "toolong" }

AllConfigs ==
    [ urlSafe : BOOLEAN, minLength : {0, minB64Length, MaxMinLength},
      verbose : BOOLEAN, showOffset : BOOLEAN ]

FindConfigs ==
    [ urlSafe : BOOLEAN, minLength : {minB64Length, MaxMinLength},
      verbose : {FALSE}, showOffset : {FALSE} ]

LimitConfigs ==
    [ urlSafe : {FALSE}, minLength : {minB64Length},
      verbose : BOOLEAN, showOffset : {FALSE} ]

(* Files of one generated line. *)
TokenFiles ==
    { [segs |-> << [text |-> l, count |-> 1] >>, end |-> "eof"] :
        l \in TokenLines(MaxTokens) }

(* Files of written lines: one line repeated, ending in each of the three  *)
(* ways; a line followed by another line; the file without a line.         *)
SmallFiles ==
    { [segs |-> << [text |-> l, count |-> c] >>, end |-> e] :
        l \in WrittenLines, c \in 1..MaxRepeat, e \in Ends }
    \cup
    { [segs |-> << [text |-> l, count |-> 1], [text |-> m, count |-> 1] >>,
       end |-> "eof"] : l \in WrittenLines, m \in {LineTwo, LineNone} }
    \cup
    { [segs |-> << >>, end |-> e] : e \in Ends }

(* Files with more candidates than maxMatches.  LimitFileA: the limit is   *)
(* reached with the last candidate of a line, a line without candidates    *)
(* follows, then lines with one.  LimitFileB: the limit is reached with    *)
(* the first of the three candidates of a line.  LimitFileC: the input     *)
(* ends right after the candidate that reaches the limit.                  *)
LimitFileA ==
    [segs |-> << [text |-> <<89, 87, 74, 106>>, count |-> maxMatches],
                 [text |-> LineNone, count |-> MaxRepeat],
                 [text |-> LineTwo, count |-> MaxRepeat] >>,
     end |-> "eof"]

LimitFileB ==
    [segs |-> << [text |-> LineThree, count |-> (maxMatches \div 3) + 1],
                 [text |-> LineTwo, count |-> 1] >>,
     end |-> "eof"]

LimitFileC ==
    [segs |-> << [text |-> LineTwo, count |-> maxMatches \div 2],
                 [text |-> LineNone, count |-> 1] >>,
     end |-> "readerr"]

LimitFiles == { LimitFileA, LimitFileB, LimitFileC }

Init ==
    \E cfg \in AllConfigs, f \in TokenFiles \cup SmallFiles \cup LimitFiles :
        /\ \/ f \in SmallFiles
           \/ f \in TokenFiles /\ cfg \in FindConfigs
           \/ f \in LimitFiles /\ cfg \in LimitConfigs
        /\ InitRun(cfg, f)

Spec == Init /\ [][Next]_vars

(***************************************************************************)
(* Model validity: every rune the output filter classifies in a reachable  *)
(* state is one IsPrint and IsSpace are defined for.                       *)
(***************************************************************************)
RECURSIVE runesOf(_, _)
runesOf(s, i) ==
    IF i > Len(s) THEN <<>>
    ELSE LET d == DecodeRuneInString(s, i)
         IN  <<d.r>> \o runesOf(s, i + d.size)

RunesClassified ==
    \A i \in 1..Len(runesOf(last.decoded, 1)) :
        LET r == runesOf(last.decoded, 1)[i] IN r <= 255 \/ r = RuneError

(***************************************************************************)
(* Vocabulary of the properties.                                           *)
(***************************************************************************)
Range(q) == { q[i] : i \in 1..Len(q) }

\* The length of s without its trailing '=' characters.
unpaddedLen(s) ==
    CHOOSE k \in 0..Len(s) :
        /\ k = 0 \/ s[k] # 61
        /\ \A j \in (k + 1)..Len(s) : s[j] = 61

\* s as a whole matches [A-Za-z0-9+/]{4,}={0,2}.
WholeStdMatch(s) ==
    \E k \in 0..2 :
        /\ Len(s) - k >= 4
        /\ \A i \in 1..(Len(s) - k) : s[i] \in stdB64Class
        /\ \A i \in (Len(s) - k + 1)..Len(s) : s[i] = 61

\* The elements of q in the order of their first occurrence.
firstOccurrences(q) ==
    LET keep == { i \in 1..Len(q) : \A j \in 1..(i - 1) : q[j] # q[i] }
        nth(n) == CHOOSE i \in keep : Cardinality({ j \in keep : j < i }) = n - 1
    IN  [ n \in 1..Cardinality(keep) |-> q[nth(n)] ]

\* base64.StdEncoding.EncodeToString, the encoder the round trip starts from.
encodeChar(v) ==
    IF v < 26 THEN v + 65
    ELSE IF v < 52 THEN v + 71
    ELSE IF v < 62 THEN v - 4
    ELSE IF v = 62 THEN 43 ELSE 47

RECURSIVE EncodeToString(_)
EncodeToString(p) ==
    IF p = <<>> THEN <<>>
    ELSE LET b1 == p[1]
             b2 == IF Len(p) >= 2 THEN p[2] ELSE 0
             b3 == IF Len(p) >= 3 THEN p[3] ELSE 0
             c1 == encodeChar(b1 \div 4)
             c2 == encodeChar((b1 % 4) * 16 + b2 \div 16)
             c3 == encodeChar((b2 % 16) * 4 + b3 \div 64)
             c4 == encodeChar(b3 % 64)
         IN  IF Len(p) = 1 THEN <<c1, c2, 61, 61>>
             ELSE IF Len(p) = 2 THEN <<c1, c2, c3, 61>>
             ELSE <<c1, c2, c3, c4>> \o EncodeToString(SubSeq(p, 4, Len(p)))

DefaultConfig ==
    /\ ~config.urlSafe
    /\ config.minLength = minB64Length
    /\ ~config.showOffset

(***************************************************************************)
(* C1 (round trip).  As claimed: for every printable ASCII text p, of      *)
(* length 1 and 2 as well, a run with the default configuration over a     *)
(* file whose single line is the padded standard base64 of p, alone or     *)
(* between blanks, ends having written p as its output line.               *)
(* Refuted: the pattern needs four alphabet characters before the          *)
(* padding, so "YQ==" (p = "a") is no candidate and nothing is written.    *)
(***************************************************************************)
RoundTripTexts == { <<97>>, <<97, 98>>, <<97, 98, 99>> }

Blanks == { <<>>, <<32>> }

C1_RoundTrip ==
    \A p \in RoundTripTexts, pre \in Blanks, post \in Blanks :
        ( /\ pc = "done"
          /\ DefaultConfig
          /\ file.end = "eof"
          /\ file.segs = << [text |-> pre \o EncodeToString(p) \o post,
                             count |-> 1] >> )
        => (stdout.count >= 1 /\ stdout.last = p /\ stdout.prefix = 0)

(***************************************************************************)
(* C2 (output filter).  As claimed: a decoded sequence is accepted if and  *)
(* only if it is not empty, none of its characters is neither printable    *)
(* (or \n, \r, \t) nor whitespace, and printable characters / all          *)
(* characters >= 0.75, whatever the width of the characters.               *)
(* Refuted: the code divides by the number of bytes; the bytes C3 A9 61    *)
(* (U+00E9, 'a': two printable characters of two) give 2/3 and are         *)
(* rejected.                                                               *)
(***************************************************************************)
printableRune(r) == IsPrint(r) \/ r = 10 \/ r = 13 \/ r = 9

claimedAccept(s) ==
    LET rs == runesOf(s, 1)
    IN  /\ s # <<>>
        /\ \A i \in 1..Len(rs) : printableRune(rs[i]) \/ IsSpace(rs[i])
        /\ 4 * Cardinality({ i \in 1..Len(rs) : printableRune(rs[i]) })
              >= 3 * Len(rs)

C2_FilterRule ==
    (decodeCalls > 0 /\ ~last.err) => (last.valid <=> claimedAccept(last.decoded))

(***************************************************************************)
(* C3 (match limit).  totalFound, the number of candidates passed to       *)
(* decodeBase64, never exceeds maxMatches; when the loop meets a further   *)
(* candidate with totalFound = maxMatches, that candidate is not decoded   *)
(* and findAndDecode returns nil at once: no candidate is counted, decoded *)
(* or printed and no line is read in that step.                            *)
(***************************************************************************)
C3_MatchLimit ==
    /\ [](totalFound <= maxMatches /\ decodeCalls = totalFound)
    /\ [][ (pc = "loop" /\ totalFound = maxMatches)
           => /\ pc' = "done"
              /\ result' = "nil"
              /\ UNCHANGED << totalFound, decodeCalls, totalDecoded, stdout,
                              last, lineNum, seg, rep >> ]_vars

\* The limit stops a run in the middle of a line: the first of the line's
\* three candidates was the last one processed, lines are left unread.
C3_Witness ==
    /\ pc = "done"
    /\ result = "nil"
    /\ totalFound = maxMatches
    /\ decodeCalls = maxMatches
    /\ Len(matches) = 3
    /\ idx = 2
    /\ seg <= Len(file.segs)

(***************************************************************************)
(* C4 (after the limit).  As claimed: once totalFound has reached          *)
(* maxMatches no further input line is read or scanned.                    *)
(* Refuted: the limit is tested only inside the loop over a line's         *)
(* matches, so when the candidate that reaches the limit is the last of    *)
(* its line, the following lines are read and scanned until one yields a   *)
(* candidate or the input ends.                                            *)
(***************************************************************************)
C4_NoLineReadAfterLimit ==
    [][ totalFound >= maxMatches => lineNum' = lineNum ]_vars

(***************************************************************************)
(* C4, amended.  Once totalFound has reached maxMatches no further         *)
(* candidate is processed (none is counted, decoded or printed); if the    *)
(* current line has a remaining candidate the run returns at once without  *)
(* reading a line; otherwise the following lines are still read and        *)
(* scanned, and the run returns at the first of them that yields a         *)
(* candidate, or when the input ends.                                      *)
(***************************************************************************)
C4_StopsAtNextCandidate ==
    [][ totalFound >= maxMatches
        => /\ UNCHANGED << totalFound, decodeCalls, totalDecoded, stdout, last >>
           /\ pc = "loop" => (pc' = "done" /\ lineNum' = lineNum)
           /\ pc = "scan" =>
                \/ (pc' = "done" /\ lineNum' = lineNum /\ seg > Len(file.segs))
                \/ (lineNum' = lineNum + 1
                    /\ pc' = (IF matches' = <<>> THEN "scan" ELSE "loop")) ]_vars

\* The run read and scanned lines after the limit was reached, and returned
\* at the first candidate it met.
C4_Witness ==
    /\ pc = "done"
    /\ result = "nil"
    /\ totalFound = maxMatches
    /\ last.lineNum = maxMatches
    /\ lineNum > maxMatches + 1
    /\ matches # <<>>
    /\ idx = 1

(***************************************************************************)
(* C5 (summary).  As claimed: in verbose mode every run that returns nil   *)
(* has printed the statistics, at the end of the input and at the match    *)
(* limit alike.                                                            *)
(* Refuted: the return at the limit (src/main.go:103) prints the warning   *)
(* only.                                                                   *)
(***************************************************************************)
C5_SummaryPrinted ==
    (pc = "done" /\ result = "nil" /\ config.verbose) => stderr.statistics

(***************************************************************************)
(* C6 (skip and continue).  A step in which decodeBase64 fails or the      *)
(* filter rejects the result writes nothing to stdout, leaves totalDecoded *)
(* unchanged and does not end the run: the loop goes on with the line's    *)
(* next candidate, or with the scanner when there is none.  A run returns  *)
(* an error only when the scanner ended with a read error or an overlong   *)
(* line, and totalDecoded <= totalFound always.                            *)
(***************************************************************************)
C6_SkipAndContinue ==
    /\ [](/\ totalDecoded <= totalFound
          /\ result = "error" => file.end # "eof"
          /\ pc = "done" => result \in {"nil", "error"})
    /\ [][ (decodeCalls' = decodeCalls + 1 /\ (last'.err \/ ~last'.valid))
           => /\ UNCHANGED << stdout, totalDecoded, lineNum, result >>
              /\ result' = "none"
              /\ IF idx < Len(matches)
                 THEN pc' = "loop" /\ idx' = idx + 1 /\ matches' = matches
                 ELSE pc' = "scan" ]_vars

\* A run over two lines, each with a failing, a rejected and an accepted
\* candidate, that has returned nil.
C6_Witness ==
    /\ pc = "done"
    /\ result = "nil"
    /\ config.verbose
    /\ lineNum = 2
    /\ totalFound = 6
    /\ totalDecoded = 2
    /\ stderr.decodeErrors = 2
    /\ stdout.count = 2

(***************************************************************************)
(* C7 (completeness).  A line that as a whole matches                      *)
(* [A-Za-z0-9+/]{4,}={0,2}, whose length without the padding is 0, 2 or 3  *)
(* modulo 4 and whose length is >= minLength, is itself one of the         *)
(* candidates findBase64Patterns returns for it.                           *)
(***************************************************************************)
C7_Completeness ==
    ( /\ lineNum > 0
      /\ WholeStdMatch(line)
      /\ unpaddedLen(line) % 4 \in {0, 2, 3}
      /\ Len(line) >= config.minLength )
    => line \in Range(matches)

\* Such a line, with two padding characters, found as a whole.
C7_Witness ==
    /\ pc = "loop"
    /\ WholeStdMatch(line)
    /\ unpaddedLen(line) % 4 = 0
    /\ Len(line) = unpaddedLen(line) + 2
    /\ Len(line) >= config.minLength
    /\ matches = << line >>

(***************************************************************************)
(* C8 (length validation).  No string whose length without trailing '='    *)
(* is 1 modulo 4 is a candidate or is passed to decodeBase64, with urlSafe *)
(* on or off and for every minLength, and totalFound counts the calls of   *)
(* decodeBase64 only.                                                      *)
(***************************************************************************)
C8_LengthValidation ==
    /\ \A i \in 1..Len(matches) : unpaddedLen(matches[i]) % 4 # 1
    /\ decodeCalls > 0 => unpaddedLen(last.match) % 4 # 1
    /\ totalFound = decodeCalls

\* A line with a match of such a length beside a candidate: the run ended
\* having counted and decoded the candidate only.
C8_Witness ==
    /\ pc = "done"
    /\ lineNum = 1
    /\ \E m \in Range(stdB64Pattern(line)) \cup Range(urlB64Pattern(line)) :
          unpaddedLen(m) % 4 = 1 /\ Len(m) >= config.minLength
    /\ totalFound = 1
    /\ decodeCalls = 1

(***************************************************************************)
(* C9 (decode order).  decodeBase64 calls the encodings in the order       *)
(* Std, URL, RawURL, RawStd, the two URL ones only with urlSafe; it stops  *)
(* at the first that succeeds and returns its bytes, and it fails if and   *)
(* only if every encoding of that order fails.                             *)
(***************************************************************************)
claimedOrder ==
    IF config.urlSafe
    THEN << [url |-> FALSE, padded |-> TRUE], [url |-> TRUE, padded |-> TRUE],
            [url |-> TRUE, padded |-> FALSE], [url |-> FALSE, padded |-> FALSE] >>
    ELSE << [url |-> FALSE, padded |-> TRUE], [url |-> FALSE, padded |-> FALSE] >>

C9_DecodeOrder ==
    decodeCalls > 0 =>
        LET n == Len(last.tried)
            m == last.match
        IN  /\ n \in 1..Len(claimedOrder)
            /\ \A i \in 1..n : last.tried[i] = claimedOrder[i]
            /\ \A i \in 1..(n - 1) : DecodeString(claimedOrder[i], m).err
            /\ last.err <=>
                  \A i \in 1..Len(claimedOrder) : DecodeString(claimedOrder[i], m).err
            /\ ~last.err =>
                  /\ ~DecodeString(claimedOrder[n], m).err
                  /\ last.decoded = DecodeString(claimedOrder[n], m).bytes

\* With urlSafe, a candidate that only the fourth encoding decodes.
C9_Witness ==
    /\ decodeCalls > 0
    /\ config.urlSafe
    /\ Len(last.tried) = 4
    /\ ~last.err
    /\ last.decoded # <<>>

(***************************************************************************)
(* C10 (distinct candidates).  The result of findBase64Patterns for a line *)
(* holds no value twice and only values of length >= minLength; it is the  *)
(* valid matches of the standard pattern in the order of their first       *)
(* occurrence, followed, with urlSafe only, by the valid matches of the    *)
(* URL-safe pattern not yet in it, in the order of their first occurrence. *)
(* It depends on the line alone: nothing seen in an earlier line is kept.  *)
(***************************************************************************)
validMatch(m) == Len(m) >= config.minLength /\ unpaddedLen(m) % 4 \in {0, 2, 3}

C10_DistinctCandidates ==
    lineNum > 0 =>
        /\ \A i, j \in 1..Len(matches) : i # j => matches[i] # matches[j]
        /\ \A i \in 1..Len(matches) : Len(matches[i]) >= config.minLength
        /\ matches =
             firstOccurrences(
                SelectSeq(stdB64Pattern(line), validMatch)
                \o (IF config.urlSafe
                    THEN SelectSeq(urlB64Pattern(line), validMatch)
                    ELSE <<>>))

\* The second of two equal lines: a standard match occurs twice in it, the
\* URL-safe pattern adds a candidate, and the candidates of the first line
\* are found again.
C10_Witness ==
    /\ lineNum = 2
    /\ config.urlSafe
    /\ Len(stdB64Pattern(line)) > Cardinality(Range(stdB64Pattern(line)))
    /\ Len(matches) = 2
    /\ matches[2] \in Range(urlB64Pattern(line))
    /\ matches[2] \notin Range(stdB64Pattern(line))
    /\ matches[2] = last.match
    /\ last.lineNum = 1

=============================================================================
